---- MODULE Spec2Model ----
(***************************************************************************)
(* docweaver: the sliding-window admission controller GeminiRateLimiter    *)
(* (clinical_orchestrator/document_processor.py) shared by every pipeline  *)
(* stage, driven by coroutines of one asyncio event loop.                  *)
(*                                                                         *)
(* Time is counted in whole seconds.  A coroutine runs without interruption*)
(* between two awaits, so every action below is the code between two       *)
(* suspension points, and the datetime.now() readings taken inside one     *)
(* action are the same clock value.  The only await inside acquire() is    *)
(* asyncio.sleep(wait_time); the timer callbacks of sleepers that are due  *)
(* run in any order.                                                       *)
(*                                                                         *)
(* Spec, SpecSeq and FairSpec are the limiter under concurrent callers,    *)
(* with the limiter of src/rate_limiter.py run beside it; ApiSpec adds     *)
(* POST /api/reset; PipeSpec is one run of run_complete_workflow, stage by *)
(* stage; ReqSpec is the feature endpoints of the API under concurrent     *)
(* requests; CfgSpec is the derivation of the limiter settings from a      *)
(* model identifier.                                                       *)
(***************************************************************************)
EXTENDS Integers, Sequences, FiniteSets, TLC

(* ---------------------------- bounds ---------------------------------- *)
NCallers == 2          \* coroutines that may call acquire() concurrently
MaxCallsCfg == 2       \* largest max_calls a limiter is built with
MaxTimeWindow == 2     \* largest time_window (seconds) a limiter is built with
MaxClock == 4          \* last clock reading explored
MaxAcquires == 3       \* acquire() invocations explored in one run
MaxDocs == 2           \* largest len(document_paths) of a workflow run
MaxReferrals == 1      \* largest number of referrals in coordination_needs
MaxNameLen == 3        \* longest model identifier, in text pieces
MaxSessions == 1       \* POST /api/reset requests explored in one run

SAFETY_MARGIN == 1     \* the "+ 1  # +1 for safety" of wait_time

Callers == 1..NCallers

VARIABLES
    max_calls,        \* self.max_calls
    time_window,      \* self.time_window
    call_times,       \* self.call_times, oldest first
    total_waits,      \* self.total_waits
    total_wait_time,  \* self.total_wait_time
    clock,            \* what datetime.now() returns
    N,                \* number of coroutines sharing the limiter in this run
    pc,               \* per coroutine: where it stands relative to acquire()
    now,              \* per coroutine: local `now` of its current acquire()
    wait_time,        \* per coroutine: local `wait_time` (0 when not computed)
    suspensions,      \* per coroutine: times its current acquire() was suspended
    ticket,           \* per coroutine: invocation number of its current acquire()
    nextTicket,       \* invocation number the next acquire() gets
    admissions,       \* every append to call_times so far: [time, ticket, waited]
    stats,            \* the dict returned by the step just taken (NoStats: none returned)
    \* --- one run of DocWeaverOrchestrator.run_complete_workflow ---
    wf,               \* "idle", "running", "finished" (returned a result) or "aborted" (raised)
    docs,             \* len(document_paths)
    stage,            \* the stage invocation in progress, or the last one that returned
    phase,            \* where that invocation stands: "none", "acquire", "admitted", "generate", "returned"
    doc_type,         \* what classify_document returned for the current document
    lab_data,         \* detect_lab_trends: some lab_report was extracted without 'error'
    events,           \* _extract_all_events(documents) is not empty
    needs,            \* coordination_needs: number of referrals, patient_communication_needed, error
    misshapen,        \* stored results that are valid JSON of an unexpected shape
    api_calls,        \* Config._api_call_count
    acquired,         \* acquire() calls completed by stages of this run
    generated,        \* model.generate_content invocations of this run
    st_acq,           \* acquire() calls completed by the stage invocation `stage`
    st_gen,           \* generate_content invocations of the stage invocation `stage`
    outcome,          \* how the generate_content call of `stage` ended ("none": not yet)
    result,           \* kind of value the stage invocation `stage` returned ("none": not yet)
    started,          \* the stage invocations of this run, in invocation order
    \* --- Config.get_recommended_rate_limiter_settings ---
    model_name,       \* the identifier passed in, as a sequence of text pieces
    settings,         \* the dict returned (NoSettings: not called yet)
    \* --- src/rate_limiter.py: a second limiter given the same calls ---
    rl_call_times,    \* its self.call_times, oldest first
    rl_pc,            \* per coroutine: where it stands relative to that acquire()
    rl_wait_time,     \* per coroutine: local `wait_time` of that acquire()
    \* --- the HTTP API (api.py) ---
    session,          \* how often the global `orchestrator` has been replaced
    workflow_state,   \* the keys of orchestrator.workflow_state that hold a result
    req,              \* per request: endpoint, position and locals of its coroutine
    returned          \* what the step just taken returned to its caller (NoReturn: nothing)

limVars == <<max_calls, time_window, call_times, total_waits, total_wait_time,
             clock, N, pc, now, wait_time, suspensions, ticket,
             nextTicket, admissions, stats>>

\* api_calls is written by every stage and by the API, so it is in no group
pipeVars == <<wf, docs, stage, phase, doc_type, lab_data, events, needs, misshapen,
              acquired, generated, st_acq, st_gen, outcome, result,
              started>>

cfgVars == <<model_name, settings>>

rlVars == <<rl_call_times, rl_pc, rl_wait_time>>

reqVars == <<session, workflow_state, req, returned>>

vars == <<limVars, pipeVars, cfgVars, rlVars, reqVars, api_calls>>

NoStats == [total_waits |-> -1, total_wait_time |-> -1, current_calls_in_window |-> -1]

(* ------------------------- pure helpers ------------------------------- *)

\* variant: a plain list, nothing is ever dropped
DequeAppend_Unbounded(q, x, m) == Append(q, x)

\* variant: a full deque refuses the new item instead of dropping its leftmost one
DequeAppend_KeepOldest(q, x, m) ==
    IF m = 0 THEN q
    ELSE IF Len(q) >= m THEN q
    ELSE Append(q, x)

\* collections.deque(maxlen=m).append(x): a full deque drops its leftmost item
DequeAppend(q, x, m) ==
    IF m = 0 THEN q
    ELSE IF Len(q) >= m THEN Append(Tail(q), x)
    ELSE Append(q, x)

\* variant: `>` written for `>=`
WindowFull_OffByOne(q, m) == Len(q) > m

\* `if len(self.call_times) >= self.max_calls`
WindowFull(q, m) == Len(q) >= m

\* variant: `<=` written for `<`
TooSoon_Inclusive(time_since_oldest, w) == time_since_oldest <= w

\* `if time_since_oldest < self.time_window`
TooSoon(time_since_oldest, w) == time_since_oldest < w

\* variant: the safety margin left out
WaitTime_NoMargin(w, time_since_oldest) == w - time_since_oldest

\* `wait_time = self.time_window - time_since_oldest + 1`
WaitTime(w, time_since_oldest) == w - time_since_oldest + SAFETY_MARGIN

\* variant: only the entries younger than time_window are counted
StatsOf_LiveOnly(q, tw, twt) ==
    [total_waits |-> tw, total_wait_time |-> twt,
     current_calls_in_window |-> Cardinality({i \in DOMAIN q : clock - q[i] < time_window})]

\* the dict built by get_stats()
StatsOf(q, tw, twt) ==
    [total_waits |-> tw, total_wait_time |-> twt, current_calls_in_window |-> Len(q)]

(* ----------------------------- Init ----------------------------------- *)

NoStage == [kind |-> "none", idx |-> 0]

NoNeeds == [referrals |-> 0, patient_communication_needed |-> FALSE, error |-> "none"]

NoSettings == [max_calls |-> 0, time_window |-> 0]

\* no workflow has been started
PipeIdle ==
    /\ wf = "idle"
    /\ docs = 0
    /\ stage = NoStage
    /\ phase = "none"
    /\ doc_type = "none"
    /\ lab_data = FALSE
    /\ events = FALSE
    /\ needs = NoNeeds
    /\ misshapen = {}
    /\ api_calls = 0
    /\ acquired = 0
    /\ generated = 0
    /\ st_acq = 0
    /\ st_gen = 0
    /\ outcome = "none"
    /\ result = "none"
    /\ started = <<>>

\* get_recommended_rate_limiter_settings has not been called
CfgIdle ==
    /\ model_name = <<>>
    /\ settings = NoSettings

\* the requests the API receives, in order of arrival
Requests == Callers

\* a request that has not arrived: its endpoint, the feature its coroutine is
\* in, the admissions that feature has still to make (left) and has made
\* (own), the local api_calls_before and the orchestrator it is bound to
NoRequest == [endpoint |-> "none", feature |-> "none", left |-> 0, own |-> 0,
              before |-> 0, sess |-> 0]

\* nothing was returned: the request, the status code of the response and
\* the api_calls_used (api_calls for /api/reset) of its body
NoReturn == [request |-> 0, status |-> 0, api_calls_used |-> 0]

ReqIdle ==
    /\ session = 0
    /\ workflow_state = {}
    /\ req = [r \in Requests |-> NoRequest]
    /\ returned = NoReturn

\* GeminiRateLimiter.__init__ of both modules plus idle coroutines
Init ==
    /\ PipeIdle
    /\ CfgIdle
    /\ ReqIdle
    /\ rl_call_times = <<>>
    /\ rl_pc = [c \in Callers |-> "idle"]
    /\ rl_wait_time = [c \in Callers |-> 0]
    /\ max_calls \in 1..MaxCallsCfg
    /\ time_window \in 1..MaxTimeWindow
    /\ call_times = <<>>
    /\ total_waits = 0
    /\ total_wait_time = 0
    /\ clock = 0
    /\ N \in 1..NCallers
    /\ pc = [c \in Callers |-> "idle"]
    /\ now = [c \in Callers |-> 0]
    /\ wait_time = [c \in Callers |-> 0]
    /\ suspensions = [c \in Callers |-> 0]
    /\ ticket = [c \in Callers |-> 0]
    /\ nextTicket = 1
    /\ admissions = <<>>
    /\ stats = NoStats

\* one coroutine only: each acquire() starts after the previous one ended
InitSeq == Init /\ N = 1

(* ---------------------------- actions --------------------------------- *)

(* src/rate_limiter.py: the limiter of the same name, built with the same  *)
(* max_calls and time_window and given the same acquire() calls at the    *)
(* same clock readings.  It keeps no counters and has no get_stats().     *)

\* variant: the one second of safety left out
rl_WaitTime_NoMargin(w, time_since_oldest) == w - time_since_oldest

\* `wait_time = self.time_window - time_since_oldest + 1`
rl_WaitTime(w, time_since_oldest) == w - time_since_oldest + 1

\* `self.call_times.append(datetime.now())` and the return
rl_Admit(c) ==
    /\ rl_call_times' = DequeAppend(rl_call_times, clock, max_calls)
    /\ rl_pc' = [rl_pc EXCEPT ![c] = "returned"]
    /\ rl_wait_time' = [rl_wait_time EXCEPT ![c] = 0]

\* acquire() of src/rate_limiter.py up to its await, or to its return
rl_acquire(c) ==
    IF Len(rl_call_times) >= max_calls
    THEN IF rl_call_times = <<>>
         THEN /\ rl_pc' = [rl_pc EXCEPT ![c] = "error"]
              /\ UNCHANGED <<rl_call_times, rl_wait_time>>
         ELSE LET time_since_oldest == clock - rl_call_times[1] IN
              IF time_since_oldest < time_window
              THEN /\ rl_wait_time' = [rl_wait_time EXCEPT ![c] =
                                          rl_WaitTime(time_window, time_since_oldest)]
                   /\ rl_pc' = [rl_pc EXCEPT ![c] = "sleeping"]
                   /\ UNCHANGED rl_call_times
              ELSE rl_Admit(c)
    ELSE rl_Admit(c)

\* acquire() of src/rate_limiter.py after its sleep, entered at now[c], ended
rl_resume(c) ==
    /\ rl_pc[c] = "sleeping"
    /\ clock >= now[c] + rl_wait_time[c]
    /\ rl_Admit(c)

\* CancelledError raised at its await
rl_cancel(c) ==
    /\ rl_pc' = [rl_pc EXCEPT ![c] = "cancelled"]
    /\ rl_wait_time' = [rl_wait_time EXCEPT ![c] = 0]
    /\ UNCHANGED rl_call_times

\* variant: a stage that does not count the call it was admitted for
Admit_Uncounted(c, t, k) ==
    /\ call_times' = DequeAppend(call_times, t, max_calls)
    /\ admissions' = Append(admissions,
                            [time |-> t, ticket |-> k, waited |-> wait_time[c]])
    /\ pc' = [pc EXCEPT ![c] = "returned"]
    /\ now' = [now EXCEPT ![c] = 0]
    /\ wait_time' = [wait_time EXCEPT ![c] = 0]
    /\ UNCHANGED api_calls

\* the tail of acquire(): `self.call_times.append(datetime.now())`, read at time t,
\* by invocation k; the frame's locals end with the return, and the stage that
\* awaited it runs Config.increment_api_calls() before its next await
Admit(c, t, k) ==
    /\ call_times' = DequeAppend(call_times, t, max_calls)
    /\ admissions' = Append(admissions,
                            [time |-> t, ticket |-> k, waited |-> wait_time[c]])
    /\ pc' = [pc EXCEPT ![c] = "returned"]
    /\ now' = [now EXCEPT ![c] = 0]
    /\ wait_time' = [wait_time EXCEPT ![c] = 0]
    /\ api_calls' = api_calls + 1

\* acquire() from its first line up to its first await, or to its return
acquire(c) ==
    /\ c \in 1..N
    /\ pc[c] # "sleeping"
    /\ pc[c] # "error"
    /\ nextTicket <= MaxAcquires
    /\ ticket' = [ticket EXCEPT ![c] = nextTicket]
    /\ nextTicket' = nextTicket + 1
    /\ UNCHANGED <<max_calls, time_window, total_waits, total_wait_time, N>>
    /\ IF WindowFull(call_times, max_calls)
       THEN IF call_times = <<>>
            THEN \* self.call_times[0] on an empty deque raises IndexError
                 /\ pc' = [pc EXCEPT ![c] = "error"]
                 /\ suspensions' = [suspensions EXCEPT ![c] = 0]
                 /\ UNCHANGED <<call_times, admissions, clock, now, wait_time, api_calls>>
            ELSE LET time_since_oldest == clock - call_times[1] IN
                 /\ IF TooSoon(time_since_oldest, time_window)
                    THEN \* await asyncio.sleep(wait_time)
                         /\ clock + WaitTime(time_window, time_since_oldest) <= MaxClock
                         /\ now' = [now EXCEPT ![c] = clock]
                         /\ wait_time' = [wait_time EXCEPT ![c] =
                                             WaitTime(time_window, time_since_oldest)]
                         /\ suspensions' = [suspensions EXCEPT ![c] = 1]
                         /\ pc' = [pc EXCEPT ![c] = "sleeping"]
                         /\ UNCHANGED <<call_times, admissions, clock, api_calls>>
                    ELSE /\ suspensions' = [suspensions EXCEPT ![c] = 0]
                         /\ Admit(c, clock, nextTicket)
                         /\ UNCHANGED clock
       ELSE /\ suspensions' = [suspensions EXCEPT ![c] = 0]
            /\ Admit(c, clock, nextTicket)
            /\ UNCHANGED clock
    /\ stats' = NoStats
    /\ rl_acquire(c)
    /\ UNCHANGED <<pipeVars, cfgVars, reqVars>>

\* variant: `while` written for `if`: the Window is checked again after the sleep
resume_Recheck(c) ==
    /\ c \in 1..N
    /\ pc[c] = "sleeping"
    /\ clock >= now[c] + wait_time[c]
    /\ total_waits' = total_waits + 1
    /\ total_wait_time' = total_wait_time + wait_time[c]
    /\ IF /\ Len(call_times) >= max_calls
          /\ clock - call_times[1] < time_window
       THEN /\ clock + (time_window - (clock - call_times[1]) + 1) <= MaxClock
            /\ now' = [now EXCEPT ![c] = clock]
            /\ wait_time' = [wait_time EXCEPT ![c] =
                                time_window - (clock - call_times[1]) + 1]
            /\ suspensions' = [suspensions EXCEPT ![c] = suspensions[c] + 1]
            /\ UNCHANGED <<call_times, admissions, pc, api_calls>>
       ELSE /\ Admit(c, clock, ticket[c])
            /\ UNCHANGED suspensions
    /\ UNCHANGED <<max_calls, time_window, clock, N, ticket, nextTicket>>
    /\ stats' = NoStats
    /\ rl_resume(c)
    /\ UNCHANGED <<pipeVars, cfgVars, reqVars>>

\* variant: the timestamp appended after the sleep is the entry reading `now`
resume_EntryStamp(c) ==
    /\ c \in 1..N
    /\ pc[c] = "sleeping"
    /\ clock >= now[c] + wait_time[c]
    /\ total_waits' = total_waits + 1
    /\ total_wait_time' = total_wait_time + wait_time[c]
    /\ Admit(c, now[c], ticket[c])
    /\ UNCHANGED <<max_calls, time_window, clock, N, suspensions, ticket, nextTicket>>
    /\ stats' = NoStats
    /\ rl_resume(c)
    /\ UNCHANGED <<pipeVars, cfgVars, reqVars>>

\* variant: total_wait_time counts suspensions instead of adding the wait
resume_CountOnly(c) ==
    /\ c \in 1..N
    /\ pc[c] = "sleeping"
    /\ clock >= now[c] + wait_time[c]
    /\ total_waits' = total_waits + 1
    /\ total_wait_time' = total_wait_time + 1
    /\ Admit(c, clock, ticket[c])
    /\ UNCHANGED <<max_calls, time_window, clock, N, suspensions, ticket, nextTicket>>
    /\ stats' = NoStats
    /\ rl_resume(c)
    /\ UNCHANGED <<pipeVars, cfgVars, reqVars>>

\* acquire() from the return of asyncio.sleep(wait_time) to its end
resume(c) ==
    /\ c \in 1..N
    /\ pc[c] = "sleeping"
    /\ clock >= now[c] + wait_time[c]
    /\ total_waits' = total_waits + 1
    /\ total_wait_time' = total_wait_time + wait_time[c]
    /\ Admit(c, clock, ticket[c])
    /\ UNCHANGED <<max_calls, time_window, clock, N, suspensions, ticket, nextTicket>>
    /\ stats' = NoStats
    /\ rl_resume(c)
    /\ UNCHANGED <<pipeVars, cfgVars, reqVars>>

\* variant: the append sits in a `finally` and runs on cancellation too
cancel_Finally(c) ==
    /\ c \in 1..N
    /\ pc[c] = "sleeping"
    /\ pc' = [pc EXCEPT ![c] = "cancelled"]
    /\ now' = [now EXCEPT ![c] = 0]
    /\ wait_time' = [wait_time EXCEPT ![c] = 0]
    /\ call_times' = DequeAppend(call_times, clock, max_calls)
    /\ admissions' = Append(admissions,
                            [time |-> clock, ticket |-> ticket[c], waited |-> 0])
    /\ UNCHANGED <<max_calls, time_window, total_waits, total_wait_time,
                   clock, N, suspensions, ticket, nextTicket>>
    /\ stats' = NoStats
    /\ rl_cancel(c)
    /\ UNCHANGED <<pipeVars, cfgVars, reqVars, api_calls>>

\* the runtime cancels the task: CancelledError is raised at the await
cancel(c) ==
    /\ c \in 1..N
    /\ pc[c] = "sleeping"
    /\ pc' = [pc EXCEPT ![c] = "cancelled"]
    /\ now' = [now EXCEPT ![c] = 0]
    /\ wait_time' = [wait_time EXCEPT ![c] = 0]
    /\ UNCHANGED <<max_calls, time_window, call_times, total_waits, total_wait_time,
                   clock, N, suspensions, ticket, nextTicket, admissions>>
    /\ stats' = NoStats
    /\ rl_cancel(c)
    /\ UNCHANGED <<pipeVars, cfgVars, reqVars, api_calls>>

\* variant: get_stats() first drops the entries that left the sliding window
get_stats_Prune ==
    /\ call_times' = SelectSeq(call_times, LAMBDA t : clock - t < time_window)
    /\ stats' = StatsOf(call_times', total_waits, total_wait_time)
    /\ UNCHANGED <<max_calls, time_window, total_waits, total_wait_time,
                   clock, N, pc, now, wait_time, suspensions, ticket,
                   nextTicket, admissions>>
    /\ UNCHANGED <<pipeVars, cfgVars, rlVars, reqVars, api_calls>>

\* get_stats()
get_stats ==
    /\ stats' = StatsOf(call_times, total_waits, total_wait_time)
    /\ UNCHANGED <<max_calls, time_window, call_times, total_waits, total_wait_time,
                   clock, N, pc, now, wait_time, suspensions, ticket,
                   nextTicket, admissions>>
    /\ UNCHANGED <<pipeVars, cfgVars, rlVars, reqVars, api_calls>>

\* one second passes
Tick ==
    /\ clock < MaxClock
    /\ clock' = clock + 1
    /\ UNCHANGED <<max_calls, time_window, call_times, total_waits, total_wait_time,
                   N, pc, now, wait_time, suspensions, ticket,
                   nextTicket, admissions>>
    /\ stats' = NoStats
    /\ UNCHANGED <<pipeVars, cfgVars, rlVars, reqVars, api_calls>>

Next ==
    \/ \E c \in Callers : acquire(c)
    \/ \E c \in Callers : resume(c)
    \/ \E c \in Callers : cancel(c)
    \/ get_stats
    \/ Tick

Spec == Init /\ [][Next]_vars

SpecSeq == InitSeq /\ [][Next]_vars

\* time passes, and the event loop runs a sleeper's timer callback once it is due
Fairness ==
    /\ WF_vars(Tick)
    /\ \A c \in Callers : WF_vars(resume(c))

FairSpec == Init /\ [][Next]_vars /\ Fairness


(* ===================== POST /api/reset (api.py) ======================= *)
(* The stages of the running requests are the coroutines of Spec; the     *)
(* reset endpoint has no await and runs between any two of their steps.   *)

\* variant: the reset also builds a new limiter
reset_session_NewLimiter ==
    /\ session < MaxSessions
    /\ session' = session + 1
    /\ workflow_state' = {}
    /\ api_calls' = 0
    /\ call_times' = <<>>
    /\ total_waits' = 0
    /\ total_wait_time' = 0
    /\ stats' = NoStats
    /\ UNCHANGED <<max_calls, time_window,
                   clock, N, pc, now, wait_time, suspensions, ticket,
                   nextTicket, admissions>>
    /\ returned' = [request |-> 0, status |-> 200, api_calls_used |-> api_calls']
    /\ UNCHANGED <<pipeVars, cfgVars, rlVars, req>>

\* reset_session(): `orchestrator = DocWeaverOrchestrator()`, whose components
\* take the module-level rate_limiter, then Config.reset_api_calls()
reset_session ==
    /\ session < MaxSessions
    /\ session' = session + 1
    /\ workflow_state' = {}
    /\ api_calls' = 0
    /\ stats' = NoStats
    /\ UNCHANGED <<max_calls, time_window, call_times, total_waits, total_wait_time,
                   clock, N, pc, now, wait_time, suspensions, ticket,
                   nextTicket, admissions>>
    /\ returned' = [request |-> 0, status |-> 200, api_calls_used |-> api_calls']
    /\ UNCHANGED <<pipeVars, cfgVars, rlVars, req>>

\* the limiter built once at import, shared by NCallers coroutines
ApiInit ==
    /\ Init
    /\ max_calls = MaxCallsCfg
    /\ time_window = MaxTimeWindow
    /\ N = NCallers

ApiNext ==
    \/ \E c \in Callers : acquire(c)
    \/ \E c \in Callers : resume(c)
    \/ \E c \in Callers : cancel(c)
    \/ get_stats
    \/ Tick
    \/ reset_session

ApiSpec == ApiInit /\ [][ApiNext]_vars


(* ========================= the call pipeline ========================== *)
(* One run of run_complete_workflow.  A stage is one coroutine function   *)
(* that awaits rate_limiter.acquire(), counts the call, awaits            *)
(* model.generate_content in a worker thread and turns the answer into    *)
(* its return value.  The limiter is represented here by the return of    *)
(* acquire(); what it does with the Window is the subject of Spec.        *)

\* Config.DOCUMENT_TYPES
DOCUMENT_TYPES ==
    {"lab_report", "visit_note", "imaging", "specialist_note", "discharge_summary"}

\* process_document: the extractor a document type is routed to
Extractor(t) ==
    IF t = "lab_report" THEN "extract_lab_data"
    ELSE IF t = "imaging" THEN "extract_imaging_data"
    ELSE IF t = "specialist_note" THEN "extract_specialist_note_data"
    ELSE "extract_visit_note_data"

Extractors == {Extractor(t) : t \in DOCUMENT_TYPES}

\* variant: generate_complete_note awaits the plan before the assessment
AfterDocuments_PlanFirst ==
    <<"identify_new_events", "detect_lab_trends", "establish_causal_relationships",
      "prioritize_changes",
      "expand_to_hpi", "generate_objective", "generate_plan", "generate_assessment",
      "extract_icd10_codes", "determine_cpt_code",
      "identify_coordination_needs">>

\* the awaits of analyze_all, of generate_complete_note and the first one of
\* coordinate_all_actions, in program order
AfterDocuments ==
    <<"identify_new_events", "detect_lab_trends", "establish_causal_relationships",
      "prioritize_changes",
      "expand_to_hpi", "generate_objective", "generate_assessment", "generate_plan",
      "extract_icd10_codes", "determine_cpt_code",
      "identify_coordination_needs">>

St(k) == [kind |-> k, idx |-> 0]

EndOfWorkflow == St("end")

IndexOf(seq, k) == CHOOSE i \in DOMAIN seq : seq[i] = k

\* coordinate_all_actions once i referral letters are written
AfterNeeds(i) ==
    IF i < needs.referrals
    THEN [kind |-> "generate_referral_letter", idx |-> i + 1]
    ELSE IF needs.patient_communication_needed
         THEN St("generate_patient_communication")
         ELSE St("generate_doctor_handover_report")

\* variant: process_document without the discharge_summary branch and the
\* final else, so that such a document gets no extraction
NextStage_NoDischargeBranch ==
    IF stage.kind = "none"
    THEN IF docs >= 1 THEN [kind |-> "classify_document", idx |-> 1]
                      ELSE St(AfterDocuments[1])
    ELSE IF stage.kind = "classify_document" /\ doc_type # "discharge_summary"
    THEN [kind |-> Extractor(doc_type), idx |-> stage.idx]
    ELSE IF stage.kind \in Extractors \cup {"classify_document"}
    THEN IF stage.idx < docs THEN [kind |-> "classify_document", idx |-> stage.idx + 1]
                             ELSE St(AfterDocuments[1])
    ELSE IF stage.kind = "identify_coordination_needs" THEN AfterNeeds(0)
    ELSE IF stage.kind = "generate_referral_letter" THEN AfterNeeds(stage.idx)
    ELSE IF stage.kind = "generate_patient_communication"
    THEN St("generate_doctor_handover_report")
    ELSE IF stage.kind = "generate_doctor_handover_report" THEN EndOfWorkflow
    ELSE St(AfterDocuments[IndexOf(AfterDocuments, stage.kind) + 1])

\* the stage the workflow awaits next, `stage` being the last one that returned
NextStage ==
    IF stage.kind = "none"
    THEN IF docs >= 1 THEN [kind |-> "classify_document", idx |-> 1]
                      ELSE St(AfterDocuments[1])
    ELSE IF stage.kind = "classify_document"
    THEN [kind |-> Extractor(doc_type), idx |-> stage.idx]
    ELSE IF stage.kind \in Extractors
    THEN IF stage.idx < docs THEN [kind |-> "classify_document", idx |-> stage.idx + 1]
                             ELSE St(AfterDocuments[1])
    ELSE IF stage.kind = "identify_coordination_needs" THEN AfterNeeds(0)
    ELSE IF stage.kind = "generate_referral_letter" THEN AfterNeeds(stage.idx)
    ELSE IF stage.kind = "generate_patient_communication"
    THEN St("generate_doctor_handover_report")
    ELSE IF stage.kind = "generate_doctor_handover_report" THEN EndOfWorkflow
    ELSE St(AfterDocuments[IndexOf(AfterDocuments, stage.kind) + 1])

\* stages that return response.text.strip()
TextStages ==
    {"expand_to_hpi", "generate_objective", "generate_assessment", "generate_plan",
     "generate_referral_letter", "generate_patient_communication",
     "generate_doctor_handover_report"}

\* how a generate_content call can end for a stage: it raises ("fail"), or it
\* answers with the expected content ("ok"), with text that is not JSON
\* ("malformed"), with JSON of another shape ("wrong_shape"), or, for the
\* classifier, with a word outside DOCUMENT_TYPES ("unlisted")
Outcomes(k) ==
    IF k = "classify_document" THEN {"ok", "unlisted", "fail"}
    ELSE IF k \in TextStages THEN {"ok", "fail"}
    ELSE {"ok", "malformed", "wrong_shape", "fail"}

\* _parse_json_response: json.loads of the unfenced text, whatever its shape;
\* on an exception {"error": ..., "raw": response_text[:200]}
parse_json_response(o) == IF o = "malformed" THEN "error_raw" ELSE "parsed"

\* _parse_json_array: as above, but JSON that is not a list becomes []
parse_json_array(o) ==
    IF o = "malformed" THEN "error_raw"
    ELSE IF o = "wrong_shape" THEN "empty_list"
    ELSE "parsed"

\* the kind of value a stage returns after its generate_content call ended with o
StageResult(k, o) ==
    IF o = "fail" THEN "fallback"
    ELSE IF k = "classify_document" THEN (IF o = "ok" THEN "doc_type" ELSE "fallback")
    ELSE IF k \in TextStages THEN "text"
    ELSE IF k = "extract_icd10_codes" THEN parse_json_array(o)
    ELSE parse_json_response(o)

\* where a value of unexpected shape is kept and later read with dict methods
ShapeSlot(k) ==
    IF k \in Extractors THEN {"documents"}
    ELSE IF k = "prioritize_changes" THEN {"priorities"}
    ELSE IF k = "determine_cpt_code" THEN {"cpt"}
    ELSE IF k = "identify_coordination_needs" THEN {"needs"}
    ELSE {}

\* a workflow run over one limiter built with the largest configuration
PipeInit ==
    /\ Init
    /\ max_calls = MaxCallsCfg
    /\ time_window = MaxTimeWindow
    /\ N = 1

\* run_complete_workflow(document_paths, brief_note) up to its first await
run_complete_workflow(d) ==
    /\ wf = "idle"
    /\ wf' = "running"
    /\ docs' = d
    /\ api_calls' = 0
    /\ UNCHANGED <<stage, phase, doc_type, lab_data, events, needs, misshapen,
                   acquired, generated, st_acq, st_gen, outcome, result,
                   started>>
    /\ UNCHANGED <<limVars, cfgVars, rlVars, reqVars>>

\* the places where the workflow reads a stored result with dict or list
\* methods; a value of unexpected shape may raise there
RaisePoint ==
    \/ /\ "documents" \in misshapen
       /\ \/ phase = "admitted" /\ stage.kind \in {"identify_new_events",
                                                  "establish_causal_relationships"}
          \/ phase = "returned" /\ NextStage.kind = "detect_lab_trends"
          \/ phase = "returned" /\ stage.kind = "prioritize_changes"
    \/ /\ "cpt" \in misshapen
       /\ phase = "returned" /\ stage.kind = "determine_cpt_code"
    \/ /\ "needs" \in misshapen
       /\ phase = "returned"
       /\ stage.kind \in {"identify_coordination_needs", "generate_doctor_handover_report"}
    \/ /\ "priorities" \in misshapen
       /\ phase = "returned" /\ NextStage = EndOfWorkflow

\* the stored results the workflow no longer reads once stage k is invoked:
\* the documents after create_timeline, the CPT code after the summary of
\* generate_clinical_documentation
ReadNoMore(k) ==
    IF k = "expand_to_hpi" THEN {"documents"}
    ELSE IF k = "identify_coordination_needs" THEN {"cpt"}
    ELSE {}

\* variant: the stage goes straight to the model, without awaiting acquire()
stage_call_Unthrottled ==
    /\ wf = "running"
    /\ phase \in {"none", "returned"}
    /\ NextStage # EndOfWorkflow
    /\ stage' = NextStage
    /\ started' = Append(started, NextStage)
    /\ st_acq' = 0
    /\ st_gen' = 0
    /\ outcome' = "none"
    /\ IF NextStage.kind = "detect_lab_trends" /\ ~lab_data
       THEN phase' = "returned" /\ result' = "no_call"
       ELSE phase' = "admitted" /\ result' = "none"
    /\ misshapen' = misshapen \ ReadNoMore(NextStage.kind)
    /\ UNCHANGED <<wf, docs, doc_type, lab_data, events, needs,
                   api_calls, acquired, generated>>
    /\ UNCHANGED <<limVars, cfgVars, rlVars, reqVars>>

\* the workflow awaits its next stage; the stage runs up to
\* `await self.rate_limiter.acquire()` (detect_lab_trends returns before it
\* when there is no lab data)
stage_call ==
    /\ wf = "running"
    /\ phase \in {"none", "returned"}
    /\ NextStage # EndOfWorkflow
    /\ stage' = NextStage
    /\ started' = Append(started, NextStage)
    /\ st_acq' = 0
    /\ st_gen' = 0
    /\ outcome' = "none"
    /\ IF NextStage.kind = "detect_lab_trends" /\ ~lab_data
       THEN phase' = "returned" /\ result' = "no_call"
       ELSE phase' = "acquire" /\ result' = "none"
    /\ misshapen' = misshapen \ ReadNoMore(NextStage.kind)
    /\ UNCHANGED <<wf, docs, doc_type, lab_data, events, needs,
                   api_calls, acquired, generated>>
    /\ UNCHANGED <<limVars, cfgVars, rlVars, reqVars>>

\* acquire() returns to the stage, which then runs Config.increment_api_calls()
stage_admitted ==
    /\ wf = "running"
    /\ phase = "acquire"
    /\ phase' = "admitted"
    /\ acquired' = acquired + 1
    /\ st_acq' = st_acq + 1
    /\ api_calls' = api_calls + 1
    /\ UNCHANGED <<wf, docs, stage, doc_type, lab_data, events, needs, misshapen,
                   generated, st_gen, outcome, result, started>>
    /\ UNCHANGED <<limVars, cfgVars, rlVars, reqVars>>

\* the stage builds its prompt and awaits asyncio.to_thread(generate_content);
\* establish_causal_relationships returns instead when there are no events
generate_call ==
    /\ wf = "running"
    /\ phase = "admitted"
    /\ IF stage.kind = "establish_causal_relationships" /\ ~events
       THEN /\ phase' = "returned"
            /\ result' = "no_call"
            /\ UNCHANGED <<generated, st_gen>>
       ELSE /\ phase' = "generate"
            /\ generated' = generated + 1
            /\ st_gen' = st_gen + 1
            /\ UNCHANGED result
    /\ UNCHANGED <<wf, docs, stage, doc_type, lab_data, events, needs, misshapen,
                   api_calls, acquired, st_acq, outcome, started>>
    /\ UNCHANGED <<limVars, cfgVars, rlVars, reqVars>>

\* variant: classify_document returns the answer of the model as it is
StageData_RawAnswer(o, t, e, r, m) ==
    LET k == stage.kind
        usable == o \in {"ok", "wrong_shape"}
    IN
    /\ doc_type' = IF k = "classify_document"
                   THEN (IF o = "ok" THEN t ELSE IF o = "unlisted" THEN "unlisted" ELSE "visit_note")
                   ELSE IF k \in Extractors THEN "none"
                   ELSE doc_type
    /\ lab_data' = (lab_data \/ (k \in Extractors /\ doc_type = "lab_report" /\ usable))
    /\ events' = (\/ events
                  \/ /\ k \in Extractors
                     /\ usable
                     /\ \/ doc_type \in {"visit_note", "discharge_summary", "specialist_note"}
                        \/ doc_type = "lab_report" /\ o = "ok" /\ e)
    /\ needs' = IF k # "identify_coordination_needs" THEN needs
                ELSE IF o = "ok"
                THEN [referrals |-> r, patient_communication_needed |-> m, error |-> "none"]
                ELSE IF o = "wrong_shape" THEN NoNeeds
                ELSE IF o = "malformed"
                THEN [referrals |-> 0, patient_communication_needed |-> FALSE, error |-> "parse"]
                ELSE [referrals |-> 0, patient_communication_needed |-> FALSE, error |-> "generation"]
    /\ misshapen' = IF o = "wrong_shape" THEN misshapen \cup ShapeSlot(k) ELSE misshapen

\* what the answer of a stage changes in the data later stages branch on:
\* t is the type the classifier names, e whether a lab report lists tests,
\* r and m the referrals and the patient_communication_needed of the needs
StageData(o, t, e, r, m) ==
    LET k == stage.kind
        usable == o \in {"ok", "wrong_shape"}     \* no 'error' key in extracted_data
    IN
    /\ doc_type' = IF k = "classify_document"
                   THEN (IF o = "ok" THEN t ELSE "visit_note")
                   ELSE IF k \in Extractors THEN "none"
                   ELSE doc_type
    /\ lab_data' = (lab_data \/ (k \in Extractors /\ doc_type = "lab_report" /\ usable))
    /\ events' = (\/ events
                  \/ /\ k \in Extractors
                     /\ usable
                     /\ \/ doc_type \in {"visit_note", "discharge_summary", "specialist_note"}
                        \/ doc_type = "lab_report" /\ o = "ok" /\ e)
    /\ needs' = IF k # "identify_coordination_needs" THEN needs
                ELSE IF o = "ok"
                THEN [referrals |-> r, patient_communication_needed |-> m, error |-> "none"]
                ELSE IF o = "wrong_shape" THEN NoNeeds
                ELSE IF o = "malformed"
                THEN [referrals |-> 0, patient_communication_needed |-> FALSE, error |-> "parse"]
                ELSE [referrals |-> 0, patient_communication_needed |-> FALSE, error |-> "generation"]
    /\ misshapen' = IF o = "wrong_shape" THEN misshapen \cup ShapeSlot(k) ELSE misshapen

\* variant: no try/except around the call, a failure propagates to the workflow
generate_returns_NoExcept(o, t, e, r, m) ==
    /\ wf = "running"
    /\ phase = "generate"
    /\ o \in Outcomes(stage.kind)
    /\ (stage.kind = "classify_document" /\ o = "ok") \/ t = "visit_note"
    /\ (stage.kind = "extract_lab_data" /\ o = "ok") \/ e = FALSE
    /\ (stage.kind = "identify_coordination_needs" /\ o = "ok") \/ (r = 0 /\ m = FALSE)
    /\ outcome' = o
    /\ IF o = "fail"
       THEN /\ wf' = "aborted"
            /\ UNCHANGED <<phase, result, doc_type, lab_data, events, needs, misshapen>>
       ELSE /\ phase' = "returned"
            /\ result' = StageResult(stage.kind, o)
            /\ StageData(o, t, e, r, m)
            /\ UNCHANGED wf
    /\ UNCHANGED <<docs, stage, api_calls, acquired, generated, st_acq, st_gen, started>>
    /\ UNCHANGED <<limVars, cfgVars, rlVars, reqVars>>

\* generate_content ends with outcome o and the stage returns: the body of
\* its try block, or of its `except Exception`; an input the stage does not
\* read is given one fixed value
generate_returns(o, t, e, r, m) ==
    /\ wf = "running"
    /\ phase = "generate"
    /\ o \in Outcomes(stage.kind)
    /\ (stage.kind = "classify_document" /\ o = "ok") \/ t = "visit_note"
    /\ (stage.kind = "extract_lab_data" /\ o = "ok") \/ e = FALSE
    /\ (stage.kind = "identify_coordination_needs" /\ o = "ok") \/ (r = 0 /\ m = FALSE)
    /\ outcome' = o
    /\ phase' = "returned"
    /\ result' = StageResult(stage.kind, o)
    /\ StageData(o, t, e, r, m)
    /\ UNCHANGED <<wf, docs, stage, api_calls, acquired, generated, st_acq, st_gen, started>>
    /\ UNCHANGED <<limVars, cfgVars, rlVars, reqVars>>

\* AttributeError or TypeError outside any try block ends the workflow
raises ==
    /\ wf = "running"
    /\ RaisePoint
    /\ wf' = "aborted"
    /\ UNCHANGED <<docs, stage, phase, doc_type, lab_data, events, needs, misshapen,
                   api_calls, acquired, generated, st_acq, st_gen, outcome, result,
                   started>>
    /\ UNCHANGED <<limVars, cfgVars, rlVars, reqVars>>

\* run_complete_workflow after its last await: the summary and the return
workflow_return ==
    /\ wf = "running"
    /\ phase = "returned"
    /\ NextStage = EndOfWorkflow
    /\ wf' = "finished"
    /\ UNCHANGED <<docs, stage, phase, doc_type, lab_data, events, needs, misshapen,
                   api_calls, acquired, generated, st_acq, st_gen, outcome, result,
                   started>>
    /\ UNCHANGED <<limVars, cfgVars, rlVars, reqVars>>

PipeNext ==
    \/ \E d \in 0..MaxDocs : run_complete_workflow(d)
    \/ stage_call
    \/ stage_admitted
    \/ generate_call
    \/ \E o \in {"ok", "unlisted", "malformed", "wrong_shape", "fail"},
          t \in DOCUMENT_TYPES, e \in BOOLEAN, r \in 0..MaxReferrals, m \in BOOLEAN :
          generate_returns(o, t, e, r, m)
    \/ raises
    \/ workflow_return

PipeSpec == PipeInit /\ [][PipeNext]_vars


(* ======================= the HTTP API (api.py) ======================== *)
(* Requests are coroutines of one event loop and share the global          *)
(* `orchestrator`, the class-level Config._api_call_count and the limiter. *)
(* A feature is followed through the admissions of its stages (each the   *)
(* return of acquire() with the increment of the count, as in PipeSpec)   *)
(* and through its return; the limiter is represented by those returns.   *)

\* the attributes DocWeaverOrchestrator.__init__ sets
OrchestratorAttributes ==
    {"document_processor", "temporal_analyzer", "doc_generator", "coordination_agent",
     "workflow_state"}

\* the stages of analyze_all
AnalysisStages == SubSeq(AfterDocuments, 1, IndexOf(AfterDocuments, "prioritize_changes"))

\* the stages of generate_complete_note
DocumentationStages ==
    SubSeq(AfterDocuments, IndexOf(AfterDocuments, "expand_to_hpi"),
           IndexOf(AfterDocuments, "determine_cpt_code"))

\* admissions of process_patient_documents over d documents: two for each
\* document, one for each stage of analyze_all but detect_lab_trends without
\* lab data (lab: some document is a lab report extracted without error)
DocumentsAdmissions(d, lab) ==
    2 * d + Len(AnalysisStages) - (IF lab THEN 0 ELSE 1)

\* admissions of generate_clinical_documentation
DocumentationAdmissions == Len(DocumentationStages)

\* admissions of coordinate_care: identify_coordination_needs, one letter for
\* each referral, the patient communication if needed, the handover report
CoordinationAdmissions(refs, comm) == 1 + refs + (IF comm THEN 1 ELSE 0) + 1

\* the request whose turn it is to arrive
Arrives(r) ==
    /\ req[r] = NoRequest
    /\ \A q \in Requests : q < r => req[q] # NoRequest

\* the response has been sent
Responded(e) == [NoRequest EXCEPT !.endpoint = e, !.feature = "done"]

\* the response of request r
Response(r, code, n) == [request |-> r, status |-> code, api_calls_used |-> n]

\* a request enters a feature that has n admissions to make
Entering(e, f, n) ==
    [NoRequest EXCEPT !.endpoint = e, !.feature = f, !.left = n,
                      !.before = api_calls', !.sess = session]

ReqFrame == UNCHANGED <<limVars, pipeVars, cfgVars, rlVars, session>>

\* POST /api/workflow/documents with d files, up to the first acquire() of
\* process_patient_documents; HTTPException(400) is raised inside the try
\* block and leaves through `except Exception` as a 500
process_documents(r, d, lab) ==
    /\ Arrives(r)
    /\ lab => d >= 1
    /\ IF d = 0
       THEN /\ req' = [req EXCEPT ![r] = Responded("documents")]
            /\ returned' = Response(r, 500, 0)
            /\ UNCHANGED api_calls
       ELSE /\ api_calls' = 0
            /\ req' = [req EXCEPT ![r] =
                         Entering("documents", "F2", DocumentsAdmissions(d, lab))]
            /\ returned' = NoReturn
    /\ UNCHANGED workflow_state
    /\ ReqFrame

\* POST /api/documentation/generate up to the first acquire() of
\* generate_clinical_documentation, which reads api_calls_before
generate_documentation(r, empty) ==
    /\ Arrives(r)
    /\ UNCHANGED api_calls
    /\ IF empty
       THEN /\ req' = [req EXCEPT ![r] = Responded("documentation")]
            /\ returned' = Response(r, 500, 0)
       ELSE /\ req' = [req EXCEPT ![r] =
                         Entering("documentation", "F8", DocumentationAdmissions)]
            /\ returned' = NoReturn
    /\ UNCHANGED workflow_state
    /\ ReqFrame

\* POST /api/coordination/generate: `orchestrator.analysis_results` and
\* `orchestrator.documentation_results` are read inside the try block, and
\* any exception raised there, HTTPException(400) included, leaves through
\* `except Exception` as a 500
generate_coordination(r, refs, comm) ==
    /\ Arrives(r)
    /\ UNCHANGED api_calls
    /\ IF \/ "analysis_results" \notin OrchestratorAttributes       \* AttributeError
          \/ "temporal_analysis" \notin workflow_state               \* HTTPException(400)
          \/ "documentation_results" \notin OrchestratorAttributes  \* AttributeError
          \/ "generated_documentation" \notin workflow_state         \* HTTPException(400)
       THEN /\ req' = [req EXCEPT ![r] = Responded("coordination")]
            /\ returned' = Response(r, 500, 0)
       ELSE /\ req' = [req EXCEPT ![r] =
                         Entering("coordination", "F9", CoordinationAdmissions(refs, comm))]
            /\ returned' = NoReturn
    /\ UNCHANGED workflow_state
    /\ ReqFrame

\* acquire() returns to a stage of the request, which counts the call and
\* goes on to its next await
request_admitted(r) ==
    /\ req[r].feature \in {"F2", "F8", "F9"}
    /\ req[r].left > 0
    /\ req' = [req EXCEPT ![r].left = @ - 1, ![r].own = @ + 1]
    /\ api_calls' = api_calls + 1
    /\ returned' = NoReturn
    /\ UNCHANGED workflow_state
    /\ ReqFrame

\* what a feature stores in the workflow_state of the orchestrator its
\* request was bound to; a replaced orchestrator is no longer read
Stored(r, key) ==
    IF req[r].sess = session THEN workflow_state \cup {key} ELSE workflow_state

\* the last stage of a feature has returned: the feature stores its result,
\* computes api_calls_used and returns, and the endpoint responds
feature_returns(r) ==
    LET q == req[r] IN
    /\ q.feature \in {"F2", "F8", "F9"}
    /\ q.left = 0
    /\ UNCHANGED api_calls
    /\ workflow_state' = IF q.feature = "F2" THEN Stored(r, "temporal_analysis")
                         ELSE IF q.feature = "F8" THEN Stored(r, "generated_documentation")
                         ELSE Stored(r, "coordination_results")
    /\ req' = [req EXCEPT ![r] = Responded(q.endpoint)]
    /\ returned' = Response(r, 200, IF q.feature = "F2" THEN api_calls
                                     ELSE api_calls - q.before)
    /\ ReqFrame

\* an exception leaves the feature (a stored result of unexpected shape is
\* read) and the endpoint answers 500 from its `except Exception`
request_fails(r) ==
    /\ req[r].feature \in {"F2", "F8", "F9"}
    /\ req' = [req EXCEPT ![r] = Responded(req[r].endpoint)]
    /\ returned' = Response(r, 500, 0)
    /\ UNCHANGED <<api_calls, workflow_state>>
    /\ ReqFrame

ReqNext ==
    \/ \E r \in Requests, d \in 0..MaxDocs, lab \in BOOLEAN : process_documents(r, d, lab)
    \/ \E r \in Requests, empty \in BOOLEAN : generate_documentation(r, empty)
    \/ \E r \in Requests, refs \in 0..MaxReferrals, comm \in BOOLEAN :
          generate_coordination(r, refs, comm)
    \/ \E r \in Requests : request_admitted(r)
    \/ \E r \in Requests : feature_returns(r)
    \/ \E r \in Requests : request_fails(r)
    \/ reset_session

ReqSpec == PipeInit /\ [][ReqNext]_vars


(* ===================== rate limiter settings (config.py) ============== *)
(* A model identifier is a sequence of text pieces; no piece is a prefix  *)
(* of another and "models/" cannot straddle two pieces, so removing the   *)
(* piece "models/" is str.replace('models/', '') on the joined text and   *)
(* two identifiers are the same text exactly when they are the same       *)
(* sequence.                                                              *)

DEFAULT_RPM == 5              \* MODEL_RATE_LIMITS.get(clean_model, 5)
TIME_WINDOW_SECONDS == 60     \* "time_window": 60

Pieces ==
    {"models/", "gemini-", "3-flash-preview", "3-pro-preview", "2.5-flash",
     "2.5-pro", "2.0-flash", "-exp", "gpt-4"}

\* the identifiers explored
ModelNames == UNION {[1..n -> Pieces] : n \in 0..MaxNameLen}

\* MODEL_RATE_LIMITS.get(name, 5)
MODEL_RATE_LIMITS(name) ==
    CASE name = <<"gemini-", "3-flash-preview">> -> 10
      [] name = <<"gemini-", "3-pro-preview">> -> 2
      [] name = <<"gemini-", "2.5-flash">> -> 15
      [] name = <<"gemini-", "2.5-pro">> -> 2
      [] name = <<"gemini-", "2.0-flash">> -> 15
      [] name = <<"gemini-", "2.0-flash", "-exp">> -> 10
      [] OTHER -> DEFAULT_RPM

\* model_name.replace('models/', ''): every occurrence is removed
replace_models(name) == SelectSeq(name, LAMBDA piece : piece # "models/")

\* get_rate_limit_for_model
get_rate_limit_for_model(name) == MODEL_RATE_LIMITS(replace_models(name))

Max(a, b) == IF a >= b THEN a ELSE b

\* max(1, int(rpm_limit * 0.9))
SafeLimit(rpm_limit) == Max(1, (rpm_limit * 9) \div 10)

\* get_recommended_rate_limiter_settings(model_name), called once when
\* document_processor is imported
get_recommended_rate_limiter_settings(name) ==
    /\ settings = NoSettings
    /\ model_name' = name
    /\ settings' = [max_calls |-> SafeLimit(get_rate_limit_for_model(name)),
                    time_window |-> TIME_WINDOW_SECONDS]
    /\ UNCHANGED <<limVars, pipeVars, rlVars, reqVars, api_calls>>

CfgNext == \E name \in ModelNames : get_recommended_rate_limiter_settings(name)

CfgSpec == PipeInit /\ [][CfgNext]_vars

(* ======================= properties of acquire() ====================== *)

\* number of admissions stamped in the trailing interval (t - w, t]
AdmittedWithin(t, w) ==
    Cardinality({i \in DOMAIN admissions :
                    admissions[i].time > t - w /\ admissions[i].time <= t})

\* C1: with one coroutine calling acquire() again and again, no trailing
\* interval of length time_window ever holds more than max_calls admission
\* timestamps, and every admission is stamped at least time_window after the
\* admission made max_calls admissions earlier.
C1_SlidingWindowBound ==
    /\ \A t \in 0..MaxClock : AdmittedWithin(t, time_window) <= max_calls
    /\ \A i, j \in DOMAIN admissions :
          j = i + max_calls => admissions[j].time - admissions[i].time >= time_window

\* a call that found the window full was suspended and then admitted
C1_Witness ==
    /\ N = 1
    /\ Len(admissions) > max_calls
    /\ total_waits >= 1
    /\ pc[1] = "returned"

\* C2: with more concurrent coroutines than max_calls the same bound holds
\* under every interleaving.
C2_ConcurrentSlidingWindowBound ==
    N > max_calls =>
        \A t \in 0..MaxClock : AdmittedWithin(t, time_window) <= max_calls

\* C3: admissions are granted in call order: timestamps are appended in the
\* order in which the acquire() calls were invoked.
C3_AdmittedInCallOrder ==
    \A i, j \in DOMAIN admissions :
        i < j => admissions[i].ticket < admissions[j].ticket

\* C5: the Window never holds more than max_calls timestamps; an admission
\* into a full Window drops exactly its oldest entry and an admission into a
\* non-full Window drops nothing.
C5_WindowBoundedEvictOldest ==
    /\ [](Len(call_times) <= max_calls)
    /\ [][admissions' # admissions =>
            LET t == admissions'[Len(admissions')].time IN
            IF Len(call_times) = max_calls
            THEN call_times' = Append(Tail(call_times), t)
            ELSE call_times' = Append(call_times, t)]_vars

\* a full Window took one more admission while another coroutine was cancelled
C5_Witness ==
    /\ Len(admissions) > max_calls
    /\ Len(call_times) = max_calls
    /\ stats # NoStats
    /\ \E c \in Callers : pc[c] = "cancelled"

\* admissions recorded for the current acquire() of coroutine c
AppendedBy(c) == {i \in DOMAIN admissions : admissions[i].ticket = ticket[c]}

\* C4: acquire() has no error path and never rejects: a call that is not
\* cancelled returns, after at most one suspension, having appended exactly
\* one timestamp.
C4_AcquireAlwaysReturns ==
    /\ [](\A c \in Callers :
            /\ pc[c] # "error"
            /\ suspensions[c] <= 1
            /\ pc[c] = "returned" => Cardinality(AppendedBy(c)) = 1
            /\ pc[c] \in {"sleeping", "cancelled"} => AppendedBy(c) = {})
    /\ \A c \in Callers :
          (pc[c] = "sleeping") ~> (pc[c] \in {"returned", "cancelled"})

\* a suspended call has returned with its one timestamp
C4_Witness ==
    \E c \in Callers :
        /\ pc[c] = "returned"
        /\ suspensions[c] = 1
        /\ Cardinality(AppendedBy(c)) = 1

\* C6: cancelling a coroutine suspended inside acquire() leaves the limiter as
\* it was before that call: neither the call's entry nor its cancellation
\* touches the Window or the counters, and nothing is appended for it.
C6_CancelLeavesWindow ==
    /\ [](\A c \in Callers : pc[c] = "cancelled" => AppendedBy(c) = {})
    /\ [][\A c \in Callers :
             (\/ pc[c] = "sleeping" /\ pc'[c] = "cancelled"
              \/ pc[c] # "sleeping" /\ pc'[c] = "sleeping")
             => UNCHANGED <<call_times, total_waits, total_wait_time, admissions,
                            max_calls, time_window>>]_vars

\* a call was cancelled during its suspension, and a later call was admitted
C6_Witness ==
    \E c \in Callers :
        /\ pc[c] = "cancelled"
        /\ Len(call_times) = max_calls
        /\ \E i \in DOMAIN admissions : admissions[i].ticket > ticket[c]

\* C7: a call that finds the Window full and its oldest entry younger than
\* time_window is suspended for time_window - elapsed + 1 seconds, elapsed
\* being the age of the oldest entry at call entry; the timestamp it appends
\* afterwards is the clock reading after the suspension, not the entry reading.
C7_WaitThenPostWaitStamp ==
    /\ [][\A c \in Callers :
             (/\ ticket'[c] # ticket[c]
              /\ Len(call_times) >= max_calls
              /\ clock - call_times[1] < time_window) =>
                /\ pc'[c] = "sleeping"
                /\ now'[c] = clock
                /\ wait_time'[c] = time_window - (clock - call_times[1]) + 1]_vars
    /\ [][\A c \in Callers :
             pc[c] = "sleeping" /\ pc'[c] = "returned" =>
                LET a == admissions'[Len(admissions')] IN
                /\ a.ticket = ticket[c]
                /\ a.time = clock'
                /\ a.time >= now[c] + wait_time[c]
                /\ a.time > now[c]
                /\ call_times'[Len(call_times')] = a.time]_vars

\* a suspended call woke later than its deadline and was stamped with that reading
C7_Witness ==
    /\ N = 1
    /\ max_calls = 1
    /\ pc[1] = "returned"
    /\ suspensions[1] = 1
    /\ Len(admissions) = 2
    /\ total_wait_time = time_window + 1
    /\ admissions[2].time > admissions[1].time + time_window + 1

\* C8: acquire() returns without suspending exactly when, at call entry, the
\* Window holds fewer than max_calls entries or its oldest entry is at least
\* time_window old; the first max_calls calls on a fresh limiter never suspend.
C8_ImmediateIffRoom ==
    /\ [](nextTicket - 1 <= max_calls =>
            /\ total_waits = 0
            /\ Len(admissions) = nextTicket - 1
            /\ \A c \in Callers : pc[c] \in {"idle", "returned"})
    /\ [][\A c \in Callers :
             ticket'[c] # ticket[c] =>
                LET room == \/ Len(call_times) < max_calls
                            \/ clock - call_times[1] >= time_window
                IN /\ pc'[c] = "returned" <=> room
                   /\ pc'[c] = "sleeping" <=> ~room]_vars

\* a call entered exactly time_window after the oldest entry and was admitted at once
C8_Witness ==
    /\ N = 1
    /\ max_calls = 1
    /\ pc[1] = "returned"
    /\ suspensions[1] = 0
    /\ total_waits = 0
    /\ Len(admissions) = 2
    /\ admissions[2].time - admissions[1].time = time_window

\* C9: every wait acquire() computes is greater than the 1-second safety
\* margin and at most time_window + 1.
C9_WaitPositiveBounded ==
    \A c \in Callers :
        pc[c] = "sleeping" =>
            /\ wait_time[c] > 1
            /\ wait_time[c] <= time_window + 1

\* rapid calls: one computed the largest wait, another a smaller one
C9_Witness ==
    /\ \E c \in Callers : pc[c] = "sleeping" /\ wait_time[c] = time_window + 1
    /\ \E c \in Callers : pc[c] = "sleeping" /\ wait_time[c] = 2
    /\ time_window > 1

\* whether an acquire() entered in this state would suspend, and for how long
WouldWait ==
    IF WindowFull(call_times, max_calls) /\ call_times # <<>>
    THEN IF TooSoon(clock - call_times[1], time_window)
         THEN WaitTime(time_window, clock - call_times[1])
         ELSE 0
    ELSE 0

\* C10: get_stats() is a pure read: a step that returns statistics leaves the
\* Window, the counters and the configuration unchanged, and with them whether
\* and how long the next acquire() suspends.
C10_GetStatsPureRead ==
    [][stats' # NoStats =>
         /\ UNCHANGED <<call_times, total_waits, total_wait_time, max_calls, time_window>>
         /\ UNCHANGED <<pc, wait_time, now>>
         /\ WouldWait' = WouldWait]_vars

\* statistics were read while a coroutine was suspended on a full Window
C10_Witness ==
    /\ stats # NoStats
    /\ stats.current_calls_in_window = max_calls
    /\ \E c \in Callers : pc[c] = "sleeping"
    /\ WouldWait > 0

\* entries of the Window whose age at the current clock reading is below time_window
LiveEntries == {i \in DOMAIN call_times : clock - call_times[i] < time_window}

\* C11: the current_calls_in_window returned by get_stats() is the number of
\* admission timestamps that are less than time_window old at the moment of
\* the call; an admission that has aged out is no longer counted.
C11_StatsCountLiveEntries ==
    stats # NoStats => stats.current_calls_in_window = Cardinality(LiveEntries)

\* the sequence s is non-decreasing
NonDecreasing(s) == \A i, j \in DOMAIN s : i <= j => s[i] <= s[j]

\* a step that appends a timestamp to the Window
AdmissionStep == Len(admissions') = Len(admissions) + 1

C13_WindowNonDecreasing ==
    /\ NonDecreasing(call_times)
    /\ NonDecreasing([i \in DOMAIN admissions |-> admissions[i].time])
    /\ call_times # <<>> => call_times[Len(call_times)] <= clock

\* two suspended callers were admitted in the reverse of their call order
C13_Witness ==
    /\ Len(admissions) = 3
    /\ admissions[2].ticket = 3
    /\ admissions[3].ticket = 2
    /\ admissions[2].waited > 0
    /\ admissions[3].waited > 0
    /\ admissions[3].time > admissions[2].time

\* sum of the waits recorded in the first n admissions
RECURSIVE SumWaited(_)
SumWaited(n) == IF n = 0 THEN 0 ELSE admissions[n].waited + SumWaited(n - 1)

\* C14: total_waits is the number of acquire() calls that suspended and then
\* completed, total_wait_time the sum of the waits computed for those calls;
\* a call that returns at once or is cancelled changes neither, and neither
\* counter ever decreases.
C14_CountersMatchCompletedWaits ==
    /\ [](/\ total_waits = Cardinality({i \in DOMAIN admissions : admissions[i].waited > 0})
          /\ total_wait_time = SumWaited(Len(admissions)))
    /\ [][/\ total_waits' >= total_waits
          /\ total_wait_time' >= total_wait_time
          /\ (\A c \in Callers : ~(pc[c] = "sleeping" /\ pc'[c] = "returned"))
                => UNCHANGED <<total_waits, total_wait_time>>
          /\ \A c \in Callers :
                pc[c] = "sleeping" /\ pc'[c] = "returned" =>
                    /\ total_waits' = total_waits + 1
                    /\ total_wait_time' = total_wait_time + wait_time[c]]_vars

\* one suspended call completed, one was cancelled, one returned at once
C14_Witness ==
    /\ total_waits = 1
    /\ total_wait_time > 1
    /\ Len(admissions) = 2
    /\ admissions[1].waited = 0
    /\ \E c \in Callers : pc[c] = "cancelled"

(* ==================== properties of the call pipeline ================= *)

Range(f) == {f[i] : i \in DOMAIN f}

\* C15: every generate_content invocation by a stage is preceded by an
\* acquire() completed by that same stage invocation, with no other
\* generate_content invocation of that stage invocation in between.
C15_GenerateAfterOwnAcquire ==
    /\ [](st_gen <= st_acq /\ generated <= acquired)
    /\ [][generated' # generated =>
             /\ generated' = generated + 1
             /\ phase = "admitted"
             /\ st_acq = 1
             /\ st_gen = 0
             /\ st_gen' = 1
             /\ stage' = stage]_vars

\* the third stage of a run is inside its generate_content call
C15_Witness ==
    /\ phase = "generate"
    /\ stage.kind = "identify_new_events"
    /\ st_acq = 1
    /\ st_gen = 1
    /\ generated = 3
    /\ acquired = 3

\* C16: every acquire() a stage completes, and every increment of the
\* API-call counter, is followed by exactly one generate_content invocation
\* of that stage before it returns, so at the end of a workflow the number of
\* admissions, the API-call count and the number of external calls are equal.
C16_OneCallPerAdmission ==
    /\ phase = "returned" => st_gen = st_acq
    /\ wf = "finished" => (acquired = api_calls /\ api_calls = generated)

\* the order of the stages as the workflow is described: per document classify
\* then extract, then the eleven analysis and documentation stages, the
\* referral letters in list order, patient communication, handover report
StageRank(s) ==
    IF s.kind = "classify_document" THEN 2 * s.idx - 1
    ELSE IF s.kind \in {"extract_lab_data", "extract_visit_note_data",
                        "extract_imaging_data", "extract_specialist_note_data"}
    THEN 2 * s.idx
    ELSE 2 * MaxDocs +
         (CASE s.kind = "identify_new_events" -> 1
            [] s.kind = "detect_lab_trends" -> 2
            [] s.kind = "establish_causal_relationships" -> 3
            [] s.kind = "prioritize_changes" -> 4
            [] s.kind = "expand_to_hpi" -> 5
            [] s.kind = "generate_objective" -> 6
            [] s.kind = "generate_assessment" -> 7
            [] s.kind = "generate_plan" -> 8
            [] s.kind = "extract_icd10_codes" -> 9
            [] s.kind = "determine_cpt_code" -> 10
            [] s.kind = "identify_coordination_needs" -> 11
            [] s.kind = "generate_referral_letter" -> 11 + s.idx
            [] s.kind = "generate_patient_communication" -> 12 + MaxReferrals
            [] s.kind = "generate_doctor_handover_report" -> 13 + MaxReferrals
            [] OTHER -> 0)

UnconditionalStages ==
    {St(k) : k \in {"identify_new_events", "detect_lab_trends",
                    "establish_causal_relationships", "prioritize_changes",
                    "expand_to_hpi", "generate_objective", "generate_assessment",
                    "generate_plan", "extract_icd10_codes", "determine_cpt_code",
                    "identify_coordination_needs", "generate_doctor_handover_report"}}
    \cup {[kind |-> "classify_document", idx |-> d] : d \in 1..docs}

\* a stage whose generate_content call raises returns its fallback value
FailingStageDegrades ==
    [][(phase = "generate" /\ outcome' = "fail") =>
          /\ result' = "fallback"
          /\ phase' = "returned"
          /\ wf' = "running"]_vars

\* C18 as stated: when generate_content calls fail, each failing stage returns
\* a degraded result, the workflow returns a result, and every later stage is
\* still invoked: also the patient communication after a failed
\* identify_coordination_needs.
C18_EveryLaterStageInvoked ==
    /\ misshapen = {} => wf # "aborted"
    /\ wf = "finished" =>
          /\ UnconditionalStages \subseteq Range(started)
          /\ needs.error = "generation" =>
                St("generate_patient_communication") \in Range(started)

\* C18: a failing generate_content call never aborts the workflow: the failing
\* stage returns its fallback value, the workflow reaches its return unless a
\* value of unexpected shape raises, and every later stage that does not
\* depend on the coordination needs is still invoked; after a failed
\* identify_coordination_needs the fallback lists no referral and no patient
\* communication, so those two stages are skipped and the handover report runs.
C18_FailureNeverAborts ==
    /\ [](misshapen = {} => wf # "aborted")
    /\ FailingStageDegrades
    /\ [](wf = "finished" =>
            /\ UnconditionalStages \subseteq Range(started)
            /\ \A i \in 1..needs.referrals :
                  [kind |-> "generate_referral_letter", idx |-> i] \in Range(started)
            /\ needs.patient_communication_needed <=>
                  St("generate_patient_communication") \in Range(started))
    /\ [](needs.error = "generation" =>
            /\ needs.referrals = 0
            /\ ~needs.patient_communication_needed
            /\ St("generate_patient_communication") \notin Range(started))

\* a run in which identify_coordination_needs failed returned a result
C18_Witness ==
    /\ wf = "finished"
    /\ needs.error = "generation"
    /\ docs >= 1
    /\ misshapen = {}
    /\ stage = St("generate_doctor_handover_report")
    /\ result = "text"

\* C19: a stage never retries: one stage invocation completes at most one
\* acquire() and makes at most one generate_content call, also when the call
\* fails or the answer does not parse as the expected JSON shape; such a parse
\* failure yields a degraded result with an error marker and the raw text.
C19_OneAttemptMarkedDegraded ==
    /\ st_acq <= 1
    /\ st_gen <= 1
    /\ outcome \in {"malformed", "wrong_shape"} => result = "error_raw"

(* ================= properties of the limiter settings ================= *)

\* the identifier without one leading "models/"
WithoutPrefix(name) ==
    IF name # <<>> /\ name[1] = "models/" THEN Tail(name) ELSE name

\* C20: for every model identifier the settings have time_window = 60 and an
\* integer max_calls >= 1 equal to max(1, floor(0.9 * rpm)) and below rpm, rpm
\* being the quota-table entry of the identifier after removing a "models/"
\* prefix; an identifier that is then not in the table gets the fallback
\* rpm = 5, hence max_calls = 4.
C20_SettingsFromPrefixStrippedName ==
    settings # NoSettings =>
        LET rpm == MODEL_RATE_LIMITS(WithoutPrefix(model_name)) IN
        /\ settings.time_window = 60
        /\ settings.max_calls \in Nat
        /\ settings.max_calls >= 1
        /\ settings.max_calls = Max(1, (9 * rpm) \div 10)
        /\ settings.max_calls < rpm
        /\ WithoutPrefix(model_name) \notin
              {<<"gemini-", "3-flash-preview">>, <<"gemini-", "3-pro-preview">>,
               <<"gemini-", "2.5-flash">>, <<"gemini-", "2.5-pro">>,
               <<"gemini-", "2.0-flash">>, <<"gemini-", "2.0-flash", "-exp">>}
           => settings.max_calls = 4

(* ================== further properties of the limiter ================= *)

Min(a, b) == IF a <= b THEN a ELSE b

\* C26: the occupancy reported by get_stats() never decreases: after k
\* completed admissions current_calls_in_window is min(k, max_calls), whatever
\* time has passed since, and once it has reached max_calls it stays there.
C26_OccupancyNeverDecreases ==
    /\ [](Len(call_times) = Min(Len(admissions), max_calls))
    /\ [](stats # NoStats =>
            stats.current_calls_in_window = Min(Len(admissions), max_calls))
    /\ [][Len(call_times') >= Len(call_times)]_vars

\* statistics read when every entry of a full Window had left the sliding window
C26_Witness ==
    /\ stats # NoStats
    /\ stats.current_calls_in_window = max_calls
    /\ Len(admissions) > max_calls
    /\ LiveEntries = {}

(* ================= further properties of the pipeline ================= *)

\* C29: classify_document always returns one of the five DOCUMENT_TYPES: the
\* answer of the model (trimmed, lower-cased) when that is one of them, and
\* 'visit_note' when it is anything else or when the call fails; it never
\* raises and never returns a value outside DOCUMENT_TYPES.
C29_ClassifyReturnsListedType ==
    /\ [](stage.kind = "classify_document" => wf = "running")
    /\ [][\A o \in {"ok", "unlisted", "fail"}, t \in DOCUMENT_TYPES :
            (stage.kind = "classify_document" /\ generate_returns(o, t, FALSE, 0, FALSE))
            => /\ phase' = "returned"
               /\ wf' = "running"
               /\ doc_type' \in DOCUMENT_TYPES
               /\ doc_type' = (IF o = "ok" THEN t ELSE "visit_note")]_vars
    /\ [][(stage.kind = "classify_document" /\ phase = "generate" /\ phase' # phase)
            => doc_type' \in DOCUMENT_TYPES /\ phase' = "returned"]_vars

\* classify_document has returned the fallback for an answer outside the list
C29_Witness ==
    /\ stage.kind = "classify_document"
    /\ phase = "returned"
    /\ outcome = "unlisted"
    /\ doc_type = "visit_note"

\* the admissions made since analyze_all was entered (every document before
\* it has cost two, see C23)
AnalyzeAllAdmissions == acquired - 2 * docs

\* C22: every run of analyze_all performs exactly 4 admitted API calls,
\* whatever the documents are, and raises the API-call count by exactly 4.
C22_AnalyzeAllFourAdmissions ==
    (stage.kind = "prioritize_changes" /\ phase = "returned")
    => (AnalyzeAllAdmissions = 4 /\ api_calls = 2 * docs + 4)

\* the documents stage: classify_document and the extractors
DocumentStages == Extractors \cup {"classify_document"}

\* C23: every document costs exactly 2 admitted calls, one classification and
\* exactly one extraction whatever the classification was; over n documents
\* process_multiple_documents performs exactly 2n admissions, in document
\* order, and the n results are produced in input order.
C23_TwoAdmissionsPerDocument ==
    /\ \A i \in 1..docs :
         /\ (stage = [kind |-> "classify_document", idx |-> i] /\ phase = "acquire")
            => (acquired = 2 * (i - 1) /\ Len(started) = 2 * i - 1)
         /\ (stage.kind \in Extractors /\ stage.idx = i)
            => /\ Len(started) = 2 * i
               /\ phase = "acquire" => acquired = 2 * i - 1
               /\ phase = "returned" => (acquired = 2 * i /\ api_calls = 2 * i)
    /\ \A j \in DOMAIN started :
         j <= 2 * docs
         => /\ started[j].idx = (j + 1) \div 2
            /\ started[j].kind \in (IF j % 2 = 1 THEN {"classify_document"} ELSE Extractors)
    /\ \A j \in DOMAIN started : j > 2 * docs => started[j].kind \notin DocumentStages
    /\ (stage.kind \notin DocumentStages \cup {"none"})
       => (Len(started) > 2 * docs /\ acquired >= 2 * docs)

\* the last of several documents, classified as a discharge summary, has been
\* extracted
C23_Witness ==
    /\ docs = MaxDocs
    /\ stage = [kind |-> "extract_visit_note_data", idx |-> docs]
    /\ phase = "returned"
    /\ acquired = 2 * docs
    /\ Len(started) = 2 * docs

(* ===================== the two limiter modules ======================== *)

\* C28: given the same configuration and the same sequence of acquire() calls
\* at the same clock readings, the limiter of src/rate_limiter.py and the one
\* of document_processor.py suspend the same calls for the same durations and
\* hold identical Windows after every step; only the counters and get_stats()
\* of the latter have no counterpart.
C28_LimitersAgree ==
    /\ rl_call_times = call_times
    /\ rl_pc = pc
    /\ rl_wait_time = wait_time

\* both limiters have suspended a call, admitted it after its sleep and
\* dropped their oldest entry for it
C28_Witness ==
    /\ total_waits >= 1
    /\ Len(admissions) > max_calls
    /\ rl_call_times = call_times
    /\ \E c \in 1..N : rl_pc[c] = "returned" /\ suspensions[c] = 1

(* ========================= the API-call count ========================= *)

\* C25: in every observable state the API-call count is the number of
\* admissions completed on the shared limiter since the most recent
\* reset_api_calls(): there is no suspension point between the return of
\* acquire() and increment_api_calls().
C25_CountIsAdmissionsSinceReset ==
    /\ [](api_calls >= 0 /\ api_calls <= Len(admissions))
    /\ [](session = 0 => api_calls = Len(admissions))
    /\ [][IF session' # session
          THEN api_calls' = 0 /\ Len(admissions') = Len(admissions)
          ELSE api_calls' - api_calls = Len(admissions') - Len(admissions)]_vars

\* after a reset, a call that had been suspended was admitted and counted
C25_Witness ==
    /\ session >= 1
    /\ api_calls >= 1
    /\ api_calls < Len(admissions)
    /\ admissions[Len(admissions)].waited > 0

\* C27: POST /api/reset sets the API-call count to 0 and replaces the
\* orchestrator, and leaves the Window, total_waits and total_wait_time of the
\* shared limiter as they were: the admissions made before the reset still
\* count against the quota of the acquire() calls made after it.
C27_ResetLeavesLimiter ==
    [][session' # session =>
         /\ api_calls' = 0
         /\ workflow_state' = {}
         /\ UNCHANGED <<call_times, total_waits, total_wait_time, max_calls, time_window>>
         /\ UNCHANGED <<pc, wait_time, now>>
         /\ WouldWait' = WouldWait]_vars

\* a reset was answered while the Window was full of recent admissions and a
\* call was suspended on it: the next acquire() would be suspended as well
C27_Witness ==
    /\ session >= 1
    /\ api_calls = 0
    /\ Len(call_times) = max_calls
    /\ \E c \in Callers : pc[c] = "sleeping"
    /\ WouldWait > 0

(* ========================= properties of the API ====================== *)

\* the features whose results POST /api/coordination/generate asks for
Prerequisites == {"temporal_analysis", "generated_documentation"}

\* C21: POST /api/coordination/generate runs care coordination only when
\* Feature 2 and Feature 8 have completed earlier in the session: when either
\* is missing it answers 400 and performs no admission; when both are present
\* it calls coordinate_care and returns its result.
C21_CoordinationNeedsBothFeatures ==
    [][\A r \in Requests :
         (req[r] = NoRequest /\ req'[r].endpoint = "coordination")
         => IF Prerequisites \subseteq workflow_state
            THEN req'[r].feature = "F9"
            ELSE /\ returned' = Response(r, 400, 0)
                 /\ api_calls' = api_calls]_vars

\* C24: the api_calls_used returned by generate_clinical_documentation and by
\* coordinate_care is the number of admissions made by that feature's own
\* stages and is never negative, also when the workflow of another request
\* runs interleaved and resets the shared count at its start.
C24_ApiCallsUsedIsOwnAdmissions ==
    [][\A r \in Requests :
         (req[r].feature \in {"F8", "F9"} /\ req'[r].feature = "done"
            /\ returned'.status = 200)
         => /\ returned'.api_calls_used = req[r].own
            /\ returned'.api_calls_used >= 0]_vars

====
